---- MODULE Spec2Model ----
(***************************************************************************)
(* Model of nestegg_montecarlo.py: the per-year portfolio recurrence       *)
(* (portfolio_annuity) and the seeded Monte Carlo driver (monte_carlo).    *)
(*                                                                         *)
(* Numbers.  The program computes with Python floats.  The model computes  *)
(* the same expressions in exact decimal arithmetic: an amount is a        *)
(* sequence of NumLimbs limbs in base 10^4, least significant first, the   *)
(* first FracLimbs of them after the decimal point; every limb but the     *)
(* last lies in 0..Base-1 and the last carries the sign.  A rate (yield,   *)
(* interest, allocation fraction, market return, inflation) is an integer  *)
(* number of 1/10000ths.  IEEE rounding is not modelled.                   *)
(***************************************************************************)
EXTENDS Integers, Sequences, FiniteSets, TLC

VARIABLES
    pc,                      \* "import" | "ready" | "AssertionError"
    PORTFOLIO_DISTRIBUTION,  \* the allocation mapping, in 1/10000ths
    rng,                     \* numpy's global generator: [seed, pos]
    drawn,                   \* history: has monte_carlo drawn a sample
    sims,                    \* the latest monte_carlo call: [runs, pre, batch]
    ref,                     \* history: an earlier monte_carlo call, same shape
    args,                    \* arguments of a direct portfolio_annuity call
    out                      \* what that call returned

vars == <<pc, PORTFOLIO_DISTRIBUTION, rng, drawn, sims, ref, args, out>>

---------------------------------------------------------------------------
(* Bounds of the model *)

\* the horizon; the program's value is 110-25
YEARS_REMAINING == 3
\* the largest run count passed to monte_carlo
MaxRuns == 2
\* limbs before the decimal point
IntLimbs == 4

MaxLen == YEARS_REMAINING + 1
FracLimbs == MaxLen
NumLimbs == FracLimbs + IntLimbs
Base == 10 * 10 * 10 * 10
\* the rate 1.0
RateOne == Base
\* draws other code may make from the global generator before it is left alone
MaxOtherPos == 1

---------------------------------------------------------------------------
(* Program constants (money in whole units, rates in 1/10000ths) *)

STARTING_EQUITY == 60000
STARTING_CASH == 60000
AFTER_TAX_SALARY == 100000
FIXED_EXPENSES == 50000
ANNUAL_DRAWDOWN == FIXED_EXPENSES + 0
SALARY_GROWTH_RATE == 200
SNP_DIV_YIELD == 140
INTEREST_RATE == 300
TAIL_RISK_COST == 30000
\* TAIL_RISK_PROBABILITY = 1/30: one raw outcome in TailOdds
TailOdds == 30
SEED == 42
\* np.random.normal(loc=0.12, scale=0.2) and (loc=0.03, scale=0.035)
SNP_LOC == 1200
SNP_SCALE == 2000
INFLATION_LOC == 300
INFLATION_SCALE == 350

---------------------------------------------------------------------------
(* Exact decimal arithmetic standing for float arithmetic *)

Min(a, b) == IF a <= b THEN a ELSE b

RECURSIVE Carry(_, _, _)
Carry(x, i, c) ==
    IF i = Len(x) THEN <<x[i] + c>>
    ELSE LET v == x[i] + c IN <<v % Base>> \o Carry(x, i + 1, v \div Base)

\* the amount of n whole units
Num(n) == Carry([i \in 1..NumLimbs |-> IF i = FracLimbs + 1 THEN n ELSE 0], 1, 0)

Zero == Num(0)

Add(x, y) == Carry([i \in 1..NumLimbs |-> x[i] + y[i]], 1, 0)
Sub(x, y) == Carry([i \in 1..NumLimbs |-> x[i] - y[i]], 1, 0)

\* x * n for an integer n
MulInt(x, n) == Carry([i \in 1..NumLimbs |-> x[i] * n], 1, 0)

\* x * (r / 10000) for a rate r
MulRate(x, r) ==
    LET p == MulInt(x, r)
    IN  Carry([i \in 1..NumLimbs |-> IF i < NumLimbs THEN p[i + 1] ELSE 0], 1, 0)

IsNeg(x) == x[NumLimbs] < 0

\* the amount n / 100 (an amount given in hundredths)
Cents(n) == MulRate(Num(n), 100)

---------------------------------------------------------------------------
(* portfolio_annuity *)

Floor0(x) == IF IsNeg(x) THEN Zero ELSE x

\* the loop body with a floor of zero under each balance
AnnuityStepFloored(cash, equity, sal, snp_perc, dd, tail) ==
    LET dividend == MulRate(equity, SNP_DIV_YIELD)
        interest == MulRate(cash, INTEREST_RATE)
        snp_return == MulRate(equity, snp_perc)
        annual_distribution == Sub(Sub(Add(Add(sal, dividend), interest), tail), dd)
    IN  [cash |-> Floor0(Add(cash, MulRate(annual_distribution, PORTFOLIO_DISTRIBUTION.cash))),
         equity |-> Floor0(Add(equity, Add(snp_return,
                        MulRate(annual_distribution, PORTFOLIO_DISTRIBUTION.equity)))),
         dividend |-> dividend,
         interest |-> interest,
         snp_return |-> snp_return,
         tail_risk |-> tail]

\* one iteration of the loop body: the balances and the year's records
AnnuityStep(cash, equity, sal, snp_perc, dd, tail) ==
    LET dividend == MulRate(equity, SNP_DIV_YIELD)
        interest == MulRate(cash, INTEREST_RATE)
        snp_return == MulRate(equity, snp_perc)
        annual_distribution == Sub(Sub(Add(Add(sal, dividend), interest), tail), dd)
    IN  [cash |-> Add(cash, MulRate(annual_distribution, PORTFOLIO_DISTRIBUTION.cash)),
         equity |-> Add(equity, Add(snp_return,
                        MulRate(annual_distribution, PORTFOLIO_DISTRIBUTION.equity))),
         dividend |-> dividend,
         interest |-> interest,
         snp_return |-> snp_return,
         tail_risk |-> tail]

\* zip(...) stops at the shortest of its arguments
ZipLen(salary, snp_return_percent, drawdown, tail_risk) ==
    Min(Min(Len(salary), Len(snp_return_percent)), Min(Len(drawdown), Len(tail_risk)))

EmptyPortfolio ==
    [cash |-> <<>>, equity |-> <<>>, dividend |-> <<>>, interest |-> <<>>,
     snp_return |-> <<>>, tail_risk |-> <<>>]

RECURSIVE AnnuityLoop(_, _, _, _, _, _, _, _, _)
AnnuityLoop(t, n, cash, equity, acc, salary, snp_return_percent, drawdown, tail_risk) ==
    IF t > n THEN acc
    ELSE LET s == AnnuityStep(cash, equity, salary[t], snp_return_percent[t],
                              drawdown[t], tail_risk[t])
         IN  AnnuityLoop(t + 1, n, s.cash, s.equity,
                 [cash |-> Append(acc.cash, s.cash),
                  equity |-> Append(acc.equity, s.equity),
                  dividend |-> Append(acc.dividend, s.dividend),
                  interest |-> Append(acc.interest, s.interest),
                  snp_return |-> Append(acc.snp_return, s.snp_return),
                  tail_risk |-> Append(acc.tail_risk, s.tail_risk)],
                 salary, snp_return_percent, drawdown, tail_risk)

portfolio_annuity(salary, snp_return_percent, drawdown, tail_risk) ==
    AnnuityLoop(1, ZipLen(salary, snp_return_percent, drawdown, tail_risk),
                Num(STARTING_CASH), Num(STARTING_EQUITY), EmptyPortfolio,
                salary, snp_return_percent, drawdown, tail_risk)

---------------------------------------------------------------------------
(* numpy's global generator.  Its state is the seed it was last given and  *)
(* the number of samples drawn since; a sample is a fixed function of both. *)

\* the generator before anyone seeds it (seeded from the system's entropy)
EntropySeeds == {7}

Seeded(s) == [seed |-> s, pos |-> 0]

Raw(g) == (((g.seed + 1) * 9 + g.pos * g.pos * 11 + g.pos * 35) % 101) % TailOdds

Advance(g, n) == [g EXCEPT !.pos = @ + n]

\* np.random.normal(loc, scale, size): loc + scale * z with z in {-1, 0, 1}
Normal(g, loc, scale, size) ==
    [k \in 1..size |-> loc + scale * ((Raw(Advance(g, k - 1)) % 3) - 1)]

\* a binomial with n=2: up to two events a year
BinomialTwo(g, size) ==
    [k \in 1..size |-> LET u == Raw(Advance(g, k - 1))
                       IN  IF u = 0 THEN 2 ELSE IF u = 1 THEN 1 ELSE 0]

\* np.random.binomial(n=1, p=TAIL_RISK_PROBABILITY, size)
Binomial(g, size) ==
    [k \in 1..size |-> IF Raw(Advance(g, k - 1)) = 0 THEN 1 ELSE 0]

---------------------------------------------------------------------------
(* monte_carlo *)

\* np.cumprod over a sequence of rates, as amounts
RECURSIVE CumProd(_, _)
CumProd(rates, k) ==
    IF k = 0 THEN <<>>
    ELSE LET before == CumProd(rates, k - 1)
             last == IF k = 1 THEN Num(1) ELSE before[k - 1]
         IN  Append(before, MulRate(last, rates[k]))

\* compounding that starts a year late: year t carries inflation up to t-1 only
DrawdownLagged(inflation) ==
    LET cp == CumProd([k \in 1..Len(inflation) |-> RateOne + inflation[k]], Len(inflation))
    IN  [k \in 1..Len(inflation) |->
            IF k = 1 THEN Num(ANNUAL_DRAWDOWN) ELSE MulInt(cp[k - 1], ANNUAL_DRAWDOWN)]

\* ANNUAL_DRAWDOWN * np.cumprod(1 + inflation)
Drawdown(inflation) ==
    LET cp == CumProd([k \in 1..Len(inflation) |-> RateOne + inflation[k]], Len(inflation))
    IN  [k \in 1..Len(inflation) |-> MulInt(cp[k], ANNUAL_DRAWDOWN)]

\* np.repeat(1 + SALARY_GROWTH_RATE, YEARS_REMAINING)
SalaryGrowth == [k \in 1..YEARS_REMAINING |-> RateOne + SALARY_GROWTH_RATE]

\* AFTER_TAX_SALARY * np.cumprod(salary_growth)
Salary(salary_growth) ==
    LET cp == CumProd(salary_growth, Len(salary_growth))
    IN  [k \in 1..Len(salary_growth) |-> MulInt(cp[k], AFTER_TAX_SALARY)]

\* a draw one sample short
TailRiskShort(g, size) ==
    LET b == Binomial(g, size - 1) IN [k \in 1..(size - 1) |-> Num(TAIL_RISK_COST * b[k])]

\* TAIL_RISK_COST * np.random.binomial(...)
TailRisk(g, size) ==
    LET b == Binomial(g, size) IN [k \in 1..size |-> Num(TAIL_RISK_COST * b[k])]

\* the scenario of one run, drawn from generator g: market return, then
\* inflation, then the tail indicator
Scenario(g) ==
    LET snp_return_percent == Normal(g, SNP_LOC, SNP_SCALE, YEARS_REMAINING)
        g1 == Advance(g, YEARS_REMAINING)
        inflation == Normal(g1, INFLATION_LOC, INFLATION_SCALE, YEARS_REMAINING)
        g2 == Advance(g1, YEARS_REMAINING)
        salary_growth == SalaryGrowth
    IN  [snp_return_percent |-> snp_return_percent,
         inflation |-> inflation,
         drawdown |-> Drawdown(inflation),
         salary_growth |-> salary_growth,
         salary |-> Salary(salary_growth),
         tail_risk |-> TailRisk(g2, YEARS_REMAINING)]

\* x + y of two arrays; on arrays of different lengths numpy raises instead
ArrayAdd(x, y) == [k \in 1..Min(Len(x), Len(y)) |-> Add(x[k], y[k])]

\* the dictionary appended for run i
Record(i, sc, portfolio) ==
    [simulation |-> i,
     year |-> [k \in 1..YEARS_REMAINING |-> (k - 1) + 1],
     nest_egg |-> ArrayAdd(portfolio.cash, portfolio.equity),
     cash_position |-> portfolio.cash,
     equity_position |-> portfolio.equity,
     salary |-> sc.salary,
     salary_growth |-> sc.salary_growth,
     div_yield |-> [k \in 1..YEARS_REMAINING |-> SNP_DIV_YIELD],
     div_return |-> portfolio.dividend,
     snp_return |-> portfolio.snp_return,
     snp_return_percent |-> sc.snp_return_percent,
     interest_return |-> portfolio.interest,
     inflation |-> sc.inflation,
     living_expenses |-> sc.drawdown,
     tail_risk |-> portfolio.tail_risk]

\* the body of the loop for run i, drawing from generator g
Simulation(i, g) ==
    LET sc == Scenario(g)
    IN  Record(i, sc, portfolio_annuity(sc.salary, sc.snp_return_percent,
                                        sc.drawdown, sc.tail_risk))

\* samples one run takes from the generator: three draws of YEARS_REMAINING
RunDraws == 3 * YEARS_REMAINING

\* a loop whose balances live on from one run to the next
RECURSIVE SimLoopShared(_, _, _, _)
SimLoopShared(i, runs, g, simiulations) ==
    IF i >= runs THEN [batch |-> simiulations, rng |-> g]
    ELSE LET sc == Scenario(g)
             n == ZipLen(sc.salary, sc.snp_return_percent, sc.drawdown, sc.tail_risk)
             c0 == IF i = 0 THEN Num(STARTING_CASH)
                   ELSE simiulations[i].cash_position[YEARS_REMAINING]
             e0 == IF i = 0 THEN Num(STARTING_EQUITY)
                   ELSE simiulations[i].equity_position[YEARS_REMAINING]
             portfolio == AnnuityLoop(1, n, c0, e0, EmptyPortfolio, sc.salary,
                                      sc.snp_return_percent, sc.drawdown, sc.tail_risk)
         IN  SimLoopShared(i + 1, runs, Advance(g, RunDraws),
                           Append(simiulations, Record(i, sc, portfolio)))

RECURSIVE SimLoop(_, _, _, _)
SimLoop(i, runs, g, simiulations) ==
    IF i >= runs THEN [batch |-> simiulations, rng |-> g]
    ELSE SimLoop(i + 1, runs, Advance(g, RunDraws), Append(simiulations, Simulation(i, g)))

\* monte_carlo without its call of np.random.seed
monte_carlo_unseeded(runs, g) == SimLoop(0, runs, g, <<>>)

\* monte_carlo seeding with a value that depends on the run count
monte_carlo_seed_by_runs(runs, g) == SimLoop(0, runs, Seeded(SEED + runs), <<>>)

\* monte_carlo(runs) called with the global generator in state g
monte_carlo(runs, g) == SimLoop(0, runs, Seeded(SEED), <<>>)

---------------------------------------------------------------------------
(* The program as a state machine *)

None == [runs |-> -1]
NoArgs == [salary |-> <<>>, snp_return_percent |-> <<>>, drawdown |-> <<>>,
           tail_risk |-> <<>>, direct |-> FALSE]
NoResult == [status |-> "none"]

\* the literal of the source, and other mappings a configuration could hold
CodeDistribution == [cash |-> 1000, equity |-> 9000]
Distributions ==
    {CodeDistribution, [cash |-> 5000, equity |-> 5000],
     [cash |-> 4000, equity |-> 5000], [cash |-> 6000, equity |-> 5000]}

\* a check that only refuses fractions summing to more than 1
AllocationAtMostOne(dist) == dist.cash + dist.equity <= RateOne

\* sum(PORTFOLIO_DISTRIBUTION.values()) == 1
AllocationOk(dist) == dist.cash + dist.equity = RateOne

Init ==
    /\ pc = "import"
    /\ PORTFOLIO_DISTRIBUTION \in Distributions
    /\ rng \in {Seeded(s) : s \in EntropySeeds}
    /\ drawn = FALSE
    /\ sims = None
    /\ ref = None
    /\ args = NoArgs
    /\ out = NoResult

\* executing the module: the assert of line 33
ModuleLoad ==
    /\ pc = "import"
    /\ pc' = IF AllocationOk(PORTFOLIO_DISTRIBUTION) THEN "ready" ELSE "AssertionError"
    /\ UNCHANGED <<PORTFOLIO_DISTRIBUTION, rng, drawn, sims, ref, args, out>>

\* a call monte_carlo(runs); ref keeps either what it held or the call before this one
MonteCarlo ==
    /\ pc = "ready"
    /\ \E runs \in 0..MaxRuns :
          LET r == monte_carlo(runs, rng)
          IN  /\ sims' = [runs |-> runs, pre |-> rng, batch |-> r.batch]
              /\ rng' = r.rng
              /\ drawn' = (drawn \/ runs > 0)
    /\ ref' \in {ref, sims}
    /\ UNCHANGED <<pc, PORTFOLIO_DISTRIBUTION, args, out>>

\* other code draws a sample from the global generator
OtherDraw ==
    /\ rng.pos < MaxOtherPos
    /\ rng' = Advance(rng, 1)
    /\ UNCHANGED <<pc, PORTFOLIO_DISTRIBUTION, drawn, sims, ref, args, out>>

Next == ModuleLoad \/ MonteCarlo \/ OtherDraw

Spec == Init /\ [][Next]_vars

---------------------------------------------------------------------------
(* Direct calls of portfolio_annuity, on argument sequences of any lengths *)

\* one year of a scenario: salary, market return, drawdown, tail-risk cost
YearInputs ==
    {[sal |-> 0, snp |-> 0, dd |-> 50000, tail |-> 0],
     [sal |-> 100000, snp |-> 3200, dd |-> 52500, tail |-> 0],
     [sal |-> 0, snp |-> -8000, dd |-> 200000, tail |-> 30000],
     [sal |-> 102000, snp |-> 1200, dd |-> 0, tail |-> 30000]}

Scenarios == UNION {[1..n -> YearInputs] : n \in 0..MaxLen}

\* the four argument sequences of a scenario, sequence `short` (0: none) cut by one
ArgsOf(scn, short) ==
    LET n == Len(scn)
        len(j) == IF j = short THEN n - 1 ELSE n
    IN  [salary |-> [k \in 1..len(1) |-> Num(scn[k].sal)],
         snp_return_percent |-> [k \in 1..len(2) |-> scn[k].snp],
         drawdown |-> [k \in 1..len(3) |-> Num(scn[k].dd)],
         tail_risk |-> [k \in 1..len(4) |-> Num(scn[k].tail)],
         direct |-> TRUE]

EngineArgs ==
    {ArgsOf(scn, short) : scn \in Scenarios, short \in 0..4} \ {ArgsOf(<<>>, j) : j \in 1..4}

InitEngine ==
    /\ pc = "import"
    /\ PORTFOLIO_DISTRIBUTION \in Distributions
    /\ rng \in {Seeded(s) : s \in EntropySeeds}
    /\ drawn = FALSE
    /\ sims = None
    /\ ref = None
    /\ args \in EngineArgs
    /\ out = NoResult

\* the call portfolio_annuity(**args); the function has no raise and no check
CallAnnuity ==
    /\ pc = "ready"
    /\ args.direct
    /\ out = NoResult
    /\ out' = [status |-> "returned",
               value |-> portfolio_annuity(args.salary, args.snp_return_percent,
                                           args.drawdown, args.tail_risk)]
    /\ UNCHANGED <<pc, PORTFOLIO_DISTRIBUTION, rng, drawn, sims, ref, args>>

NextEngine == ModuleLoad \/ CallAnnuity

SpecEngine == InitEngine /\ [][NextEngine]_vars

---------------------------------------------------------------------------
(* Properties of portfolio_annuity *)

\* x * 10000, to state a product with a rate without dividing
Scaled(x) == MulInt(x, RateOne)

Aligned(a) ==
    /\ Len(a.salary) = Len(a.snp_return_percent)
    /\ Len(a.salary) = Len(a.drawdown)
    /\ Len(a.salary) = Len(a.tail_risk)

\* year t of trajectory p obeys the recurrence on the balances before it (c, e)
\* and the year's inputs, under allocation dist; both sides are times 10^8
RecurrenceAt(p, t, c, e, sal, snp_perc, dd, tail, dist) ==
    LET nd4 == Add(Add(Scaled(Sub(Sub(sal, tail), dd)), MulInt(e, SNP_DIV_YIELD)),
                   MulInt(c, INTEREST_RATE))
    IN  /\ Scaled(Scaled(p.cash[t])) = Add(Scaled(Scaled(c)), MulInt(nd4, dist.cash))
        /\ Scaled(Scaled(p.equity[t])) =
              Add(Add(Scaled(Scaled(e)), Scaled(MulInt(e, snp_perc))),
                  MulInt(nd4, dist.equity))
        /\ Scaled(p.dividend[t]) = MulInt(e, SNP_DIV_YIELD)
        /\ Scaled(p.interest[t]) = MulInt(c, INTEREST_RATE)
        /\ Scaled(p.snp_return[t]) = MulInt(e, snp_perc)
        /\ p.tail_risk[t] = tail

Called == out.status = "returned"

FirstYearOfExample(a) ==
    /\ Len(a.salary) >= 1 /\ a.salary[1] = Num(0)
    /\ Len(a.snp_return_percent) >= 1 /\ a.snp_return_percent[1] = 0
    /\ Len(a.drawdown) >= 1 /\ a.drawdown[1] = Num(50000)
    /\ Len(a.tail_risk) >= 1 /\ a.tail_risk[1] = Num(0)

\* C1: every year recorded by portfolio_annuity follows the recurrence from the
\* balances of the year before (the starting balances in the first year), with
\* no floor under a negative balance, one record per year of aligned inputs;
\* and on the example of the specification the first year records dividend 840,
\* interest 1800, cash 55264 and equity 17376.
C1_Recurrence ==
    Called =>
        LET p == out.value
        IN  /\ \A t \in 1..Len(p.cash) :
                  RecurrenceAt(p, t,
                      IF t = 1 THEN Num(STARTING_CASH) ELSE p.cash[t - 1],
                      IF t = 1 THEN Num(STARTING_EQUITY) ELSE p.equity[t - 1],
                      args.salary[t], args.snp_return_percent[t],
                      args.drawdown[t], args.tail_risk[t], PORTFOLIO_DISTRIBUTION)
            /\ Aligned(args) =>
                  /\ Len(p.cash) = Len(args.salary)
                  /\ Len(p.equity) = Len(args.salary)
            /\ (FirstYearOfExample(args) /\ PORTFOLIO_DISTRIBUTION = CodeDistribution) =>
                  /\ p.dividend[1] = Num(840)
                  /\ p.interest[1] = Num(1800)
                  /\ p.cash[1] = Num(55264)
                  /\ p.equity[1] = Num(17376)

\* the example's first year, then a year that drives equity below zero
C1_Witness ==
    /\ Called
    /\ Aligned(args)
    /\ FirstYearOfExample(args)
    /\ PORTFOLIO_DISTRIBUTION = CodeDistribution
    /\ Len(out.value.equity) >= 2
    /\ out.value.cash[1] = Num(55264)
    /\ IsNeg(out.value.equity[2])

WrongLength(a) ==
    \/ Len(a.salary) # YEARS_REMAINING
    \/ Len(a.snp_return_percent) # YEARS_REMAINING
    \/ Len(a.drawdown) # YEARS_REMAINING
    \/ Len(a.tail_risk) # YEARS_REMAINING

\* C5: a call of portfolio_annuity with a sequence whose length is not the
\* horizon fails with an error and returns no trajectory.
C5_InputShapeError ==
    (out.status # "none" /\ WrongLength(args)) => out.status = "error"

---------------------------------------------------------------------------
(* Properties of monte_carlo *)

Called2 == sims # None /\ ref # None

Fields(r) ==
    <<r.year, r.nest_egg, r.cash_position, r.equity_position, r.salary,
      r.salary_growth, r.div_yield, r.div_return, r.snp_return,
      r.snp_return_percent, r.interest_return, r.inflation, r.living_expenses,
      r.tail_risk>>

\* C2: two executions of monte_carlo with the same run count return the same
\* batch, whatever state the generator was in before each of them.
C2_Determinism ==
    (Called2 /\ sims.runs = ref.runs) => sims.batch = ref.batch

\* the same run count twice: once on the unseeded generator after another draw,
\* once right after an earlier batch had consumed the seeded stream
C2_Witness ==
    /\ Called2
    /\ sims.runs = MaxRuns /\ ref.runs = MaxRuns
    /\ ref.pre.seed # SEED /\ ref.pre.pos > 0
    /\ sims.pre.seed = SEED /\ sims.pre.pos > 0
    /\ sims.batch[1] # sims.batch[2]

\* C3: for run counts N < M, every run i < N of monte_carlo(M) equals run i of
\* monte_carlo(N) in every field.
C3_RunIndependence ==
    (Called2 /\ sims.runs # ref.runs) =>
        \A i \in 1..Min(sims.runs, ref.runs) :
            /\ Fields(sims.batch[i]) = Fields(ref.batch[i])
            /\ sims.batch[i].simulation = ref.batch[i].simulation

\* a batch of one run and a batch of two, whose second run differs from its first
C3_Witness ==
    /\ Called2
    /\ ref.runs = 1 /\ sims.runs = 2
    /\ Fields(sims.batch[1]) = Fields(ref.batch[1])
    /\ Fields(sims.batch[2]) # Fields(sims.batch[1])

SumsToOne == PORTFOLIO_DISTRIBUTION.cash + PORTFOLIO_DISTRIBUTION.equity = 10000

\* C4: with allocation fractions that do not sum to 1 the module never gets past
\* its import: no run starts, no random draw is made by it, nothing is returned.
C4_Rejected ==
    ~SumsToOne =>
        /\ pc \in {"import", "AssertionError"}
        /\ sims = None /\ ref = None
        /\ ~drawn
        /\ out = NoResult

\* the configuration {"cash": 0.4, "equity": 0.5}, refused
C4_Witness ==
    /\ PORTFOLIO_DISTRIBUTION = [cash |-> 4000, equity |-> 5000]
    /\ pc = "AssertionError"

\* C6: the batch of monte_carlo(N) holds N run results numbered 0..N-1 in order,
\* and every sequence field of each has exactly YEARS_REMAINING entries.
C6_Lengths ==
    sims # None =>
        /\ Len(sims.batch) = sims.runs
        /\ \A i \in 1..Len(sims.batch) :
              /\ sims.batch[i].simulation = i - 1
              /\ \A f \in 1..Len(Fields(sims.batch[i])) :
                    Len(Fields(sims.batch[i])[f]) = YEARS_REMAINING
              /\ \A t \in 1..YEARS_REMAINING : sims.batch[i].year[t] = t

C6_Witness ==
    /\ sims # None
    /\ sims.runs = MaxRuns
    /\ Len(sims.batch) = MaxRuns
    /\ Len(sims.batch[MaxRuns].nest_egg) = YEARS_REMAINING

\* the tail-risk costs run i (from 1) of a batch fed into the engine: the third
\* draw of the run from the stream of SEED
TailFed(i) ==
    LET b == Binomial(Advance(Seeded(SEED), (i - 1) * RunDraws + 2 * YEARS_REMAINING),
                      YEARS_REMAINING)
    IN  [t \in 1..YEARS_REMAINING |-> Num(TAIL_RISK_COST * b[t])]

\* C7: every tail-risk cost in a run result is exactly 0 or exactly
\* TAIL_RISK_COST, and is the cost that was fed into the engine for that year.
C7_TailRisk ==
    sims # None =>
        \A i \in 1..Len(sims.batch) :
            \A t \in 1..Len(sims.batch[i].tail_risk) :
                /\ sims.batch[i].tail_risk[t] \in {Num(0), Num(TAIL_RISK_COST)}
                /\ sims.batch[i].tail_risk[t] = TailFed(i)[t]

\* a run with a year that is hit and a year that is not
C7_Witness ==
    /\ sims # None
    /\ \E i \in 1..Len(sims.batch) :
          \E t, u \in 1..YEARS_REMAINING :
              /\ sims.batch[i].tail_risk[t] = Num(TAIL_RISK_COST)
              /\ sims.batch[i].tail_risk[u] = Num(0)

\* C8: living_expenses of year t is FIXED_EXPENSES times the product of
\* (1 + inflation_k) over the years up to and including t; at 5% inflation for
\* three years that is 52500, 55125, 57881.25.
C8_Compounding ==
    /\ sims # None =>
          \A i \in 1..Len(sims.batch) :
              \A t \in 1..Len(sims.batch[i].living_expenses) :
                  Scaled(sims.batch[i].living_expenses[t]) =
                      MulInt(IF t = 1 THEN Num(FIXED_EXPENSES)
                                      ELSE sims.batch[i].living_expenses[t - 1],
                             10000 + sims.batch[i].inflation[t])
    /\ Drawdown(<<500, 500, 500>>) = <<Num(52500), Num(55125), Cents(5788125)>>

\* a run whose inflation differs between two years and is not zero in the first
C8_Witness ==
    /\ sims # None
    /\ sims.runs >= 1
    /\ sims.batch[1].inflation[1] # 0
    /\ sims.batch[1].inflation[1] # sims.batch[1].inflation[2]
    /\ sims.batch[1].living_expenses[1] # Num(FIXED_EXPENSES)

\* the trajectory of a run result, as portfolio_annuity names its parts
TrajectoryOf(r) ==
    [cash |-> r.cash_position, equity |-> r.equity_position, dividend |-> r.div_return,
     interest |-> r.interest_return, snp_return |-> r.snp_return,
     tail_risk |-> r.tail_risk]

\* C9: every run of a batch starts from STARTING_CASH and STARTING_EQUITY and
\* moves its balances once per year, each year from its own balances of the
\* year before and its own inputs, so no run depends on another's balances.
C9_OwnedState ==
    sims # None =>
        \A i \in 1..Len(sims.batch) :
            LET r == sims.batch[i]
            IN  /\ Len(r.cash_position) = YEARS_REMAINING
                /\ Len(r.equity_position) = YEARS_REMAINING
                /\ \A t \in 1..Len(r.cash_position) :
                      RecurrenceAt(TrajectoryOf(r), t,
                          IF t = 1 THEN Num(60000) ELSE r.cash_position[t - 1],
                          IF t = 1 THEN Num(60000) ELSE r.equity_position[t - 1],
                          r.salary[t], r.snp_return_percent[t], r.living_expenses[t],
                          TailFed(i)[t], PORTFOLIO_DISTRIBUTION)

\* a batch with a run after the first, ending somewhere else than the first
C9_Witness ==
    /\ sims # None
    /\ sims.runs >= 2
    /\ sims.batch[2].cash_position[YEARS_REMAINING]
          # sims.batch[1].cash_position[YEARS_REMAINING]

\* C10: in every run result nest_egg is cash_position + equity_position, and it
\* grows each year by snp_return plus the net distribution
\* salary + div_return + interest_return - tail_risk - living_expenses.
C10_Conservation ==
    sims # None =>
        \A i \in 1..Len(sims.batch) :
            LET r == sims.batch[i]
            IN  \A t \in 1..Len(r.nest_egg) :
                    /\ r.nest_egg[t] = Add(r.cash_position[t], r.equity_position[t])
                    /\ Sub(r.nest_egg[t],
                           IF t = 1 THEN Add(Num(STARTING_CASH), Num(STARTING_EQUITY))
                                    ELSE r.nest_egg[t - 1])
                         = Add(r.snp_return[t],
                               Sub(Sub(Add(Add(r.salary[t], r.div_return[t]),
                                           r.interest_return[t]),
                                       r.tail_risk[t]),
                                   r.living_expenses[t]))

\* a run under each allocation that sums to 1, with a nest egg that moves
C10_Witness ==
    /\ sims # None
    /\ sims.runs >= 1
    /\ PORTFOLIO_DISTRIBUTION = [cash |-> 5000, equity |-> 5000]
    /\ sims.batch[1].nest_egg[2] # sims.batch[1].nest_egg[1]

====
